---- MODULE Spec2Model ----
(***************************************************************************)
(* A model of DataQualityChecker (src/data_quality.py): the four           *)
(* dimension evaluators, run_all_checks and generate_quality_summary,      *)
(* acting on a DataFrame and on the checker's quality_issues dictionary.   *)
(*                                                                         *)
(* Text is a sequence of one-character strings, so that upper-casing and   *)
(* the regular expressions are computed character by character.  A cell    *)
(* value is a record [t, m, e, s]:                                         *)
(*   t = "null"   None / NaN (pd.notna is False)                           *)
(*   t = "int"    the Python int m                                         *)
(*   t = "float"  the finite float m * 10^e                                *)
(*   t = "inf"    float('inf')                                             *)
(*   t = "str"    the text s                                               *)
(***************************************************************************)
EXTENDS Integers, Sequences, FiniteSets, TLC

VARIABLES
    df,              \* the DataFrame the caller holds
    quality_issues,  \* self.quality_issues
    summaries,       \* the summaries generate_quality_summary has returned
    raised,          \* the exception the last call raised, "None" if it returned
    loads            \* the number of load_data calls

vars == <<df, quality_issues, summaries, raised, loads>>

(***************************************************************************)
(* Bounds of the model.                                                    *)
(***************************************************************************)
MaxRows == 2
MaxRunRows == 2
MaxKeyRows == 3
MaxSummaries == 1
MaxLoads == 1

(***************************************************************************)
(* Program constants.                                                      *)
(***************************************************************************)
FallbackColumns == 4
YearMin == 1900
YearMax == 2030
RevenueLimitExp == 15

Min(a, b) == IF a < b THEN a ELSE b

Max(a, b) == IF a > b THEN a ELSE b

Abs(a) == IF a < 0 THEN -a ELSE a

RECURSIVE Pow10(_)
Pow10(k) == IF k <= 0 THEN 1 ELSE 10 * Pow10(k - 1)

RECURSIVE GCD(_, _)
GCD(a, b) == IF b = 0 THEN a ELSE GCD(b, a % b)

RECURSIVE SumSeq(_)
SumSeq(s) == IF s = <<>> THEN 0 ELSE Head(s) + SumSeq(Tail(s))

(***************************************************************************)
(* Values.                                                                 *)
(***************************************************************************)
Null == [t |-> "null", m |-> 0, e |-> 0, s |-> <<>>]

IntV(n) == [t |-> "int", m |-> n, e |-> 0, s |-> <<>>]

FloatV(mant, ex) == [t |-> "float", m |-> mant, e |-> ex, s |-> <<>>]

InfV == [t |-> "inf", m |-> 1, e |-> 0, s |-> <<>>]

StrV(chars) == [t |-> "str", m |-> 0, e |-> 0, s |-> chars]

\* pd.notna(value)
NotNa(v) == v.t # "null"

(***************************************************************************)
(* Characters and str methods.                                             *)
(***************************************************************************)
UpperSeq == <<"A","B","C","D","E","F","G","H","I","J","K","L","M",
              "N","O","P","Q","R","S","T","U","V","W","X","Y","Z">>

LowerSeq == <<"a","b","c","d","e","f","g","h","i","j","k","l","m",
              "n","o","p","q","r","s","t","u","v","w","x","y","z">>

DigitSeq == <<"0","1","2","3","4","5","6","7","8","9">>

IsUpperCh(c) == \E i \in 1..26 : UpperSeq[i] = c

IsLowerCh(c) == \E i \in 1..26 : LowerSeq[i] = c

IsDigitCh(c) == \E i \in 1..10 : DigitSeq[i] = c

\* the regular expression class \s
IsSpaceCh(c) == c \in {" ", "\n", "\t"}

DigitVal(c) == (CHOOSE i \in 1..10 : DigitSeq[i] = c) - 1

UpperCh(c) == IF IsLowerCh(c) THEN UpperSeq[CHOOSE i \in 1..26 : LowerSeq[i] = c] ELSE c

\* str.upper()
Upper(s) == [i \in 1..Len(s) |-> UpperCh(s[i])]

\* str.isupper(): no lower-case character and at least one cased character
IsUpper(s) ==
    /\ \E i \in 1..Len(s) : IsUpperCh(s[i])
    /\ \A i \in 1..Len(s) : ~IsLowerCh(s[i])

RECURSIVE TitleScan(_, _, _)
TitleScan(s, prevCased, cased) ==
    IF s = <<>> THEN cased
    ELSE IF IsUpperCh(Head(s))
         THEN IF prevCased THEN FALSE ELSE TitleScan(Tail(s), TRUE, TRUE)
    ELSE IF IsLowerCh(Head(s))
         THEN IF ~prevCased THEN FALSE ELSE TitleScan(Tail(s), TRUE, TRUE)
    ELSE TitleScan(Tail(s), FALSE, cased)

\* str.istitle()
IsTitle(s) == TitleScan(s, FALSE, FALSE)

RECURSIVE NatDigits(_)
NatDigits(n) == IF n < 10 THEN <<DigitSeq[n + 1]>>
                ELSE Append(NatDigits(n \div 10), DigitSeq[(n % 10) + 1])

RECURSIVE PadDigits(_, _)
PadDigits(d, width) == IF Len(d) >= width THEN d ELSE PadDigits(<<"0">> \o d, width)

IntDigits(n) == IF n < 0 THEN <<"-">> \o NatDigits(-n) ELSE NatDigits(n)

\* str(value)
PyStr(v) ==
    CASE v.t = "str" -> v.s
      [] v.t = "int" -> IntDigits(v.m)
      [] v.t = "inf" -> <<"i", "n", "f">>
      [] v.t = "null" -> <<"n", "a", "n">>
      [] v.t = "float" /\ v.e >= 0 -> IntDigits(v.m * Pow10(v.e)) \o <<".", "0">>
      [] OTHER -> (IF v.m < 0 THEN <<"-">> ELSE <<>>)
                  \o NatDigits(Abs(v.m) \div Pow10(-v.e)) \o <<".">>
                  \o PadDigits(NatDigits(Abs(v.m) % Pow10(-v.e)), -v.e)

(***************************************************************************)
(* int(value) and float(value).  A result is [exc, kind, m, e]: exc is the *)
(* exception raised ("None" when the conversion returns), kind is "num"    *)
(* (the number m * 10^e), "inf", "ninf" or "nan".                          *)
(***************************************************************************)
NumR(mant, ex) == [exc |-> "None", kind |-> "num", m |-> mant, e |-> ex]

SpecialR(k) == [exc |-> "None", kind |-> k, m |-> 0, e |-> 0]

ErrR(x) == [exc |-> x, kind |-> "nan", m |-> 0, e |-> 0]

RECURSIVE LStrip(_)
LStrip(s) == IF s # <<>> /\ IsSpaceCh(Head(s)) THEN LStrip(Tail(s)) ELSE s

RECURSIVE RStrip(_)
RStrip(s) == IF s # <<>> /\ IsSpaceCh(s[Len(s)]) THEN RStrip(SubSeq(s, 1, Len(s) - 1)) ELSE s

\* str.strip(), which int() and float() apply to their argument
Strip(s) == RStrip(LStrip(s))

AllDigits(s) == s # <<>> /\ \A i \in 1..Len(s) : IsDigitCh(s[i])

RECURSIVE DigitsVal(_)
DigitsVal(s) == IF s = <<>> THEN 0
                ELSE 10 * DigitsVal(SubSeq(s, 1, Len(s) - 1)) + DigitVal(s[Len(s)])

HasSign(s) == s # <<>> /\ Head(s) \in {"+", "-"}

SignOf(s) == IF s # <<>> /\ Head(s) = "-" THEN -1 ELSE 1

Unsigned(s) == IF HasSign(s) THEN Tail(s) ELSE s

IntOf(st, b) == IF AllDigits(b) THEN NumR(SignOf(st) * DigitsVal(b), 0) ELSE ErrR("ValueError")

IntOfStripped(st) == IntOf(st, Unsigned(st))

\* int("<text>")
ParseIntText(s) == IntOfStripped(Strip(s))

MantissaOf(b, dots, ds) ==
    IF Cardinality(dots) <= 1 /\ AllDigits(ds)
    THEN NumR(DigitsVal(ds), IF dots = {} THEN 0 ELSE (CHOOSE i \in dots : TRUE) - Len(b))
    ELSE ErrR("ValueError")

\* the mantissa of a float literal: digits with at most one point
ParseMantissa(b) ==
    MantissaOf(b, {i \in 1..Len(b) : b[i] = "."}, SelectSeq(b, LAMBDA c : c # "."))

\* mantissa and exponent put together
Scaled(sg, mant, ex) ==
    IF mant.exc = "None" /\ ex.exc = "None" THEN NumR(sg * mant.m, mant.e + ex.m)
    ELSE ErrR("ValueError")

\* the exponent of a float literal: [+-]digits, no spaces
ParseExponent(x) == IF Strip(x) = x THEN ParseIntText(x) ELSE ErrR("ValueError")

FloatSplit(sg, b, cut) ==
    Scaled(sg, ParseMantissa(SubSeq(b, 1, cut - 1)),
           IF cut > Len(b) THEN NumR(0, 0) ELSE ParseExponent(SubSeq(b, cut + 1, Len(b))))

FloatBody(sg, b, ub, es) ==
    IF ub \in {<<"I","N","F">>, <<"I","N","F","I","N","I","T","Y">>}
    THEN SpecialR(IF sg < 0 THEN "ninf" ELSE "inf")
    ELSE IF ub = <<"N","A","N">> THEN SpecialR("nan")
    ELSE FloatSplit(sg, b, IF es = {} THEN Len(b) + 1 ELSE CHOOSE i \in es : \A j \in es : i <= j)

FloatUnsigned(sg, b) == FloatBody(sg, b, Upper(b), {i \in 1..Len(b) : UpperCh(b[i]) = "E"})

FloatOfStripped(st) == FloatUnsigned(SignOf(st), Unsigned(st))

\* float("<text>")
ParseFloatText(s) == FloatOfStripped(Strip(s))

\* int(value): a float is truncated toward zero, an infinite float overflows
PyInt(v) ==
    CASE v.t = "int" -> NumR(v.m, 0)
      [] v.t = "float" -> IF v.e >= 0 THEN NumR(v.m * Pow10(v.e), 0)
                          ELSE NumR((IF v.m < 0 THEN -1 ELSE 1) * (Abs(v.m) \div Pow10(-v.e)), 0)
      [] v.t = "inf" -> ErrR("OverflowError")
      [] v.t = "str" -> ParseIntText(v.s)
      [] OTHER -> ErrR("TypeError")

\* float(value)
PyFloat(v) ==
    CASE v.t = "int" -> NumR(v.m, 0)
      [] v.t = "float" -> NumR(v.m, v.e)
      [] v.t = "inf" -> SpecialR("inf")
      [] v.t = "str" -> ParseFloatText(v.s)
      [] OTHER -> ErrR("TypeError")

\* m * 10^e > 1e15, without leaving 32-bit integers
GtLimit(mant, ex) ==
    IF mant <= 0 THEN FALSE
    ELSE IF ex > RevenueLimitExp THEN TRUE
    ELSE IF RevenueLimitExp - ex > 9 THEN FALSE
    ELSE mant > Pow10(RevenueLimitExp - ex)

\* revenue < 0 or revenue > 1e15
RevenueOutOfRange(r) ==
    CASE r.kind = "num" -> r.m < 0 \/ GtLimit(r.m, r.e)
      [] r.kind = "inf" -> TRUE
      [] r.kind = "ninf" -> TRUE
      [] OTHER -> FALSE

(***************************************************************************)
(* The regular expressions of the evaluators, as re.match applies them.    *)
(***************************************************************************)
\* "$": the end of the text, or just before a final newline
AtDollar(rest) == rest = <<>> \/ rest = <<"\n">>

NameChars == {" ", "\n", "\t", "&", ".", "-", "(", ")", ","}

\* ^[A-Z][A-Z\s&\.\-\(\),]*$
MatchCompanyName(s) ==
    /\ s # <<>>
    /\ IsUpperCh(s[1])
    /\ \A i \in 2..Len(s) : IsUpperCh(s[i]) \/ s[i] \in NameChars

\* ^[A-Z]{3}$
MatchCurrency(s) ==
    /\ Len(s) >= 3
    /\ \A i \in 1..3 : IsUpperCh(s[i])
    /\ AtDollar(SubSeq(s, 4, Len(s)))

Months == {<<"J","a","n">>, <<"F","e","b">>, <<"M","a","r">>, <<"A","p","r">>,
           <<"M","a","y">>, <<"J","u","n">>, <<"J","u","l">>, <<"A","u","g">>,
           <<"S","e","p">>, <<"O","c","t">>, <<"N","o","v">>, <<"D","e","c">>}

\* ^\d{1,2}-(Jan|Feb|Mar|Apr|May|Jun|Jul|Aug|Sep|Oct|Nov|Dec)$
MatchFiscalDate(s) ==
    \E k \in 1..2 :
        /\ Len(s) >= k + 4
        /\ \A i \in 1..k : IsDigitCh(s[i])
        /\ s[k + 1] = "-"
        /\ SubSeq(s, k + 2, k + 4) \in Months
        /\ AtDollar(SubSeq(s, k + 5, Len(s)))

\* ^\d{4}\s*-\s*.+   ("." matches any character but a newline)
HyphenAndText(r) ==
    /\ r # <<>>
    /\ Head(r) = "-"
    /\ \E k \in 2..Len(r) :
         /\ \A j \in 2..(k - 1) : IsSpaceCh(r[j])
         /\ r[k] # "\n"

MatchIndustryCode(s) ==
    /\ Len(s) >= 4
    /\ \A i \in 1..4 : IsDigitCh(s[i])
    /\ HyphenAndText(LStrip(SubSeq(s, 5, Len(s))))

OperationStatuses == {<<"A","C","T","I","V","E">>, <<"I","N","A","C","T","I","V","E">>,
                      <<"D","O","R","M","A","N","T">>,
                      <<"L","I","Q","U","I","D","A","T","I","O","N">>}

IpoStatuses == {<<"P","U","B","L","I","C">>, <<"P","R","I","V","A","T","E">>,
                <<"S","U","B","S","I","D","I","A","R","Y">>}

(***************************************************************************)
(* Floats that are ratios of small integers: [nan, num, den] is NaN, or    *)
(* the number num / den in lowest terms.                                   *)
(***************************************************************************)
NaN == [nan |-> TRUE, num |-> 0, den |-> 1]

Rat(n, d) == LET g == GCD(Abs(n), d) IN [nan |-> FALSE, num |-> n \div g, den |-> d \div g]

(***************************************************************************)
(* DataFrames: the ordered column names and the rows, each a function      *)
(* from the column names to values.                                        *)
(***************************************************************************)
ColumnSet(d) == {d.columns[i] : i \in 1..Len(d.columns)}

\* col in df.columns
HasColumn(d, c) == c \in ColumnSet(d)

\* len(df)
NRows(d) == Len(d.rows)

\* df[c] = vals: a new column is appended, an existing one is overwritten in place
SetColumn(d, c, vals) ==
    [columns |-> IF HasColumn(d, c) THEN d.columns ELSE Append(d.columns, c),
     rows    |-> [i \in 1..NRows(d) |->
                    [k \in ColumnSet(d) \cup {c} |-> IF k = c THEN vals[i] ELSE d.rows[i][k]]]]

\* The column names of the model that start with "flag_" (names are atomic
\* strings here, so col.startswith('flag_') is membership in this set).
FlagPrefixed == {"flag_completeness", "flag_consistency", "flag_validity",
                 "flag_uniqueness", "flag_overall", "flag_manual"}

\* col.startswith('flag_')
StartsWithFlag(c) == c \in FlagPrefixed

(***************************************************************************)
(* self.quality_issues: a dictionary keyed by dimension.  A key that is    *)
(* not in the dictionary maps to Absent.                                   *)
(***************************************************************************)
Dimensions == {"completeness", "consistency", "validity", "uniqueness"}

Absent == [present |-> FALSE, total_issues |-> 0, percentage |-> NaN, description |-> <<>>]

\* self.quality_issues = {}
EmptyIssues == [dim \in Dimensions |-> Absent]

Keys(q) == {dim \in Dimensions : q[dim].present}

Measure(count, pct, descr) ==
    [present |-> TRUE, total_issues |-> count, percentage |-> pct, description |-> descr]

\* self.quality_issues[dim] = res
SetIssue(q, dim, res) == [q EXCEPT ![dim] = res]

\* issues_count / len(df) * 100 on a numpy integer: 0 / 0 is nan
NumpyPercentage(issues, n) == IF n = 0 THEN NaN ELSE Rat(issues * 100, n)

Returned(d, q) == [df |-> d, qi |-> q, exc |-> "None"]

Raised(d, q, x) == [df |-> d, qi |-> q, exc |-> x]

BoolInt(b) == IF b THEN IntV(1) ELSE IntV(0)

(***************************************************************************)
(* check_completeness                                                      *)
(***************************************************************************)
critical_columns == <<"timevalue", "providerkey", "companynameofficial",
                      "fiscalperiodend", "operationstatustype", "ipostatustype",
                      "geonameen", "industrycode", "REVENUE", "unit_REVENUE">>

\* mutant: the fallback checks every column
CompletenessFallbackAll(d) == d.columns

CompletenessFallback(d) == SubSeq(d.columns, 1, Min(FallbackColumns, Len(d.columns)))

OrCompletenessFallback(d, named) == IF named = <<>> THEN CompletenessFallback(d) ELSE named

existing_critical(d) ==
    OrCompletenessFallback(d, SelectSeq(critical_columns, LAMBDA c : HasColumn(d, c)))

\* df[existing_critical].isnull().any(axis=1), for one row
MissingAny(d, cols, i) == \E k \in 1..Len(cols) : ~NotNa(d.rows[i][cols[k]])

\* the mask is a numpy array: its sum divided by len(df) is nan on an empty frame
MaskResult(d, q, dim, column, flagged, cols) ==
    Returned(SetColumn(d, column, [i \in 1..NRows(d) |-> BoolInt(i \in flagged)]),
             SetIssue(q, dim, Measure(Cardinality(flagged),
                                      NumpyPercentage(Cardinality(flagged), NRows(d)), cols)))

CompletenessOn(d, q, cols) ==
    MaskResult(d, q, "completeness", "flag_completeness",
               {i \in 1..NRows(d) : MissingAny(d, cols, i)}, cols)

CheckCompleteness(d, q) == CompletenessOn(d, q, existing_critical(d))

\* the flags are Python ints: issues_count / len(df) raises on an empty frame,
\* after the (empty) flag column has been assigned
IntFlagsResult(d, q, dim, column, flagged) ==
    IF NRows(d) = 0 THEN Raised(SetColumn(d, column, <<>>), q, "ZeroDivisionError")
    ELSE Returned(SetColumn(d, column, [i \in 1..NRows(d) |-> BoolInt(i \in flagged)]),
                  SetIssue(q, dim, Measure(Cardinality(flagged),
                                           Rat(Cardinality(flagged) * 100, NRows(d)), <<>>)))

(***************************************************************************)
(* check_consistency                                                       *)
(***************************************************************************)
Present(d, i, c) == HasColumn(d, c) /\ NotNa(d.rows[i][c])

NameBad(company_name) ==
    ~(IsUpper(company_name) \/ IsTitle(company_name)) /\ ~MatchCompanyName(company_name)

CompanyNameBad(v) == NameBad(PyStr(v))

OperationStatusBad(v) == Upper(PyStr(v)) \notin OperationStatuses

IpoStatusBad(v) == Upper(PyStr(v)) \notin IpoStatuses

\* mutant: the code is matched without upper-casing it
CurrencyBadCaseSensitive(v) == ~MatchCurrency(PyStr(v))

CurrencyBad(v) == ~MatchCurrency(Upper(PyStr(v)))

ConsistencyFlag(d, i) ==
    \/ Present(d, i, "companynameofficial") /\ CompanyNameBad(d.rows[i]["companynameofficial"])
    \/ Present(d, i, "operationstatustype") /\ OperationStatusBad(d.rows[i]["operationstatustype"])
    \/ Present(d, i, "ipostatustype") /\ IpoStatusBad(d.rows[i]["ipostatustype"])
    \/ Present(d, i, "unit_REVENUE") /\ CurrencyBad(d.rows[i]["unit_REVENUE"])

CheckConsistency(d, q) ==
    IntFlagsResult(d, q, "consistency", "flag_consistency",
                   {i \in 1..NRows(d) : ConsistencyFlag(d, i)})

(***************************************************************************)
(* check_validity                                                          *)
(***************************************************************************)
Caught(x) == x \in {"ValueError", "TypeError"}

\* the try block on timevalue: [exc, flag]
YearOutcome(year) ==
    IF year.exc = "None" THEN [exc |-> "None", flag |-> ~(YearMin <= year.m /\ year.m <= YearMax)]
    ELSE IF Caught(year.exc) THEN [exc |-> "None", flag |-> TRUE]
    ELSE [exc |-> year.exc, flag |-> FALSE]

YearCheck(v) == YearOutcome(PyInt(v))

\* the try block on REVENUE: [exc, flag]
RevenueOutcome(revenue) ==
    IF revenue.exc = "None" THEN [exc |-> "None", flag |-> RevenueOutOfRange(revenue)]
    ELSE IF Caught(revenue.exc) THEN [exc |-> "None", flag |-> TRUE]
    ELSE [exc |-> revenue.exc, flag |-> FALSE]

RevenueCheck(v) == RevenueOutcome(PyFloat(v))

Skipped == [exc |-> "None", flag |-> FALSE]

FiscalDateBad(v) == ~MatchFiscalDate(PyStr(v))

IndustryCodeBad(v) == ~MatchIndustryCode(PyStr(v))

RowOutcome(y, r, f, c) ==
    IF y.exc # "None" THEN y
    ELSE IF r.exc # "None" THEN r
    ELSE [exc |-> "None", flag |-> y.flag \/ r.flag \/ f \/ c]

\* one iteration of the loop: [exc, flag]
ValidityRow(d, i) ==
    RowOutcome(IF Present(d, i, "timevalue") THEN YearCheck(d.rows[i]["timevalue"]) ELSE Skipped,
               IF Present(d, i, "REVENUE") THEN RevenueCheck(d.rows[i]["REVENUE"]) ELSE Skipped,
               Present(d, i, "fiscalperiodend") /\ FiscalDateBad(d.rows[i]["fiscalperiodend"]),
               Present(d, i, "industrycode") /\ IndustryCodeBad(d.rows[i]["industrycode"]))

ValidityResult(d, q, res, failed) ==
    IF failed # {} THEN Raised(d, q, res[CHOOSE i \in failed : \A j \in failed : i <= j].exc)
    ELSE IntFlagsResult(d, q, "validity", "flag_validity", {i \in 1..NRows(d) : res[i].flag})

ValidityRows(d, q, res) == ValidityResult(d, q, res, {i \in 1..NRows(d) : res[i].exc # "None"})

CheckValidity(d, q) == ValidityRows(d, q, [i \in 1..NRows(d) |-> ValidityRow(d, i)])

(***************************************************************************)
(* check_uniqueness                                                        *)
(***************************************************************************)
key_columns == <<"providerkey", "timevalue", "fiscalperiodend">>

UniquenessFallback(d) == SelectSeq(d.columns, LAMBDA c : ~StartsWithFlag(c))

OrUniquenessFallback(d, named) == IF named = <<>> THEN UniquenessFallback(d) ELSE named

existing_key_columns(d) ==
    OrUniquenessFallback(d, SelectSeq(key_columns, LAMBDA c : HasColumn(d, c)))

KeyTuple(d, cols, i) == [k \in 1..Len(cols) |-> d.rows[i][cols[k]]]

\* mutant: keep='first', the first occurrence is not marked
DuplicatedKeepFirst(d, cols, i) ==
    \E j \in 1..NRows(d) : j < i /\ KeyTuple(d, cols, j) = KeyTuple(d, cols, i)

\* df.duplicated(subset=cols, keep=False), for one row
Duplicated(d, cols, i) ==
    \E j \in 1..NRows(d) : j # i /\ KeyTuple(d, cols, j) = KeyTuple(d, cols, i)

UniquenessOn(d, q, cols) ==
    MaskResult(d, q, "uniqueness", "flag_uniqueness",
               {i \in 1..NRows(d) : Duplicated(d, cols, i)}, cols)

CheckUniqueness(d, q) == UniquenessOn(d, q, existing_key_columns(d))

(***************************************************************************)
(* run_all_checks                                                          *)
(***************************************************************************)
\* [col for col in df.columns if col.startswith('flag_')]
flag_columns(d) == SelectSeq(d.columns, LAMBDA c : StartsWithFlag(c))

\* df[flag_columns].max(axis=1), for one row: nulls are skipped
MaxOf(vals) == IF vals = {} THEN Null ELSE IntV(CHOOSE v \in vals : \A w \in vals : w <= v)

RowMax(d, cols, i) ==
    MaxOf({d.rows[i][cols[k]].m : k \in {k \in 1..Len(cols) : NotNa(d.rows[i][cols[k]])}})

OverallOn(d, cols) == SetColumn(d, "flag_overall", [i \in 1..NRows(d) |-> RowMax(d, cols, i)])

\* df['flag_overall'] = df[flag_columns].max(axis=1)
OverallFlag(d) == OverallOn(d, flag_columns(d))

\* an exception raised by one evaluator ends run_all_checks
ThenConsistency(r) == IF r.exc # "None" THEN r ELSE CheckConsistency(r.df, r.qi)

ThenValidity(r) == IF r.exc # "None" THEN r ELSE CheckValidity(r.df, r.qi)

ThenUniqueness(r) == IF r.exc # "None" THEN r ELSE CheckUniqueness(r.df, r.qi)

ThenOverall(r) == IF r.exc # "None" THEN r ELSE Returned(OverallFlag(r.df), r.qi)

RunAllChecks(d, q) ==
    ThenOverall(ThenUniqueness(ThenValidity(ThenConsistency(CheckCompleteness(d, q)))))

(***************************************************************************)
(* generate_quality_summary.  The summary's quality_measures is the        *)
(* checker's own dictionary object, not a copy: the model stores the       *)
(* reference, and a reader of the summary sees quality_issues through it.  *)
(***************************************************************************)
\* sum(measure.get('total_issues', 0) for measure in self.quality_issues.values())
TotalIssues(q) ==
    LET order == <<"completeness", "consistency", "validity", "uniqueness">>
    IN  SumSeq([k \in 1..4 |-> IF q[order[k]].present THEN q[order[k]].total_issues ELSE 0])

\* mutant: the score is not clamped at 0
UnclampedScore(total_issues, total_possible_issues) ==
    Rat(100 * total_possible_issues - 100 * total_issues, total_possible_issues)

\* max(0, 100 - (total_issues / total_possible_issues * 100))
ClampedScore(total_issues, total_possible_issues) ==
    Rat(Max(0, 100 * total_possible_issues - 100 * total_issues), total_possible_issues)

ScoreOf(total_issues, total_possible_issues) ==
    IF total_possible_issues > 0 THEN ClampedScore(total_issues, total_possible_issues)
    ELSE Rat(0, 1)

OverallQualityScore(d, q) == ScoreOf(TotalIssues(q), NRows(d) * Cardinality(Keys(q)))

GenerateQualitySummary(d, q) ==
    [total_records         |-> NRows(d),
     quality_measures      |-> "self.quality_issues",
     overall_quality_score |-> OverallQualityScore(d, q)]

(***************************************************************************)
(* Input datasets.                                                         *)
(***************************************************************************)
MkRow(cols, vals) ==
    [c \in {cols[i] : i \in 1..Len(cols)} |-> vals[CHOOSE i \in 1..Len(cols) : cols[i] = c]]

Frames(cols, rowvals, n) ==
    {[columns |-> cols, rows |-> [i \in 1..Len(rs) |-> MkRow(cols, rs[i])]] :
        rs \in UNION {[1..k -> rowvals] : k \in 0..n}}

USD == StrV(<<"U", "S", "D">>)

\* a clean record, and one with a missing year and a two-letter currency code
GeneralRows == {<<IntV(2019), USD>>, <<Null, StrV(<<"U", "S">>)>>}

GeneralInputs == Frames(<<"timevalue", "unit_REVENUE">>, GeneralRows, MaxRows)

\* the datasets a later load_data brings in: no record, or one
LoadInputs == Frames(<<"timevalue", "unit_REVENUE">>, GeneralRows, 1)

(***************************************************************************)
(* The state machine: a caller holding one checker and one DataFrame.      *)
(***************************************************************************)
InitWith(inputs) ==
    /\ df \in inputs
    /\ quality_issues = EmptyIssues
    /\ summaries = <<>>
    /\ raised = "None"
    /\ loads = 0

Init == InitWith(GeneralInputs)

load_data ==
    /\ loads < MaxLoads
    /\ \E d \in LoadInputs : df' = d
    /\ loads' = loads + 1
    /\ raised' = "None"
    /\ UNCHANGED <<quality_issues, summaries>>

check_completeness ==
    \E r \in {CheckCompleteness(df, quality_issues)} :
        /\ df' = r.df
        /\ quality_issues' = r.qi
        /\ raised' = r.exc
        /\ UNCHANGED <<summaries, loads>>

check_consistency ==
    \E r \in {CheckConsistency(df, quality_issues)} :
        /\ df' = r.df
        /\ quality_issues' = r.qi
        /\ raised' = r.exc
        /\ UNCHANGED <<summaries, loads>>

check_validity ==
    \E r \in {CheckValidity(df, quality_issues)} :
        /\ df' = r.df
        /\ quality_issues' = r.qi
        /\ raised' = r.exc
        /\ UNCHANGED <<summaries, loads>>

check_uniqueness ==
    \E r \in {CheckUniqueness(df, quality_issues)} :
        /\ df' = r.df
        /\ quality_issues' = r.qi
        /\ raised' = r.exc
        /\ UNCHANGED <<summaries, loads>>

run_all_checks ==
    \E r \in {RunAllChecks(df, quality_issues)} :
        /\ df' = r.df
        /\ quality_issues' = r.qi
        /\ raised' = r.exc
        /\ UNCHANGED <<summaries, loads>>

generate_quality_summary ==
    /\ Len(summaries) < MaxSummaries
    /\ summaries' = Append(summaries, GenerateQualitySummary(df, quality_issues))
    /\ raised' = "None"
    /\ UNCHANGED <<df, quality_issues, loads>>

Next ==
    \/ load_data
    \/ check_completeness
    \/ check_consistency
    \/ check_validity
    \/ check_uniqueness
    \/ run_all_checks
    \/ generate_quality_summary

Spec == Init /\ [][Next]_vars

(***************************************************************************)
(* check_completeness alone, on datasets with critical columns, on         *)
(* datasets without any (five columns, and fewer than four).               *)
(***************************************************************************)
X == StrV(<<"x">>)

CriticalRows == {<<tv, rev, note>> : tv \in {IntV(2019), Null}, rev \in {IntV(5), Null},
                                     note \in {X, Null}}

WideRows == {<<X, fm, X, d, e>> : fm \in {IntV(1), Null}, d \in {X, Null}, e \in {X, Null}}

NarrowRows == {<<a, fc>> : a \in {X, Null}, fc \in {IntV(0), Null}}

CompletenessInputs ==
    Frames(<<"timevalue", "REVENUE", "note">>, CriticalRows, MaxRows)
    \cup Frames(<<"a", "flag_manual", "c", "d", "e">>, WideRows, MaxRows)
    \cup Frames(<<"a", "flag_completeness">>, NarrowRows, MaxRows)

SpecCompleteness == InitWith(CompletenessInputs) /\ [][check_completeness]_vars

(***************************************************************************)
(* check_uniqueness alone, on datasets with key columns and on datasets    *)
(* without any.  Every dataset has a column that is not a flag column.     *)
(***************************************************************************)
Y == StrV(<<"y">>)

KeyRows == {<<pk, tv, note>> : pk \in {IntV(1), IntV(2)}, tv \in {IntV(2019), Null},
                               note \in {X, Y}}

NoKeyRows == {<<a, fm, b>> : a \in {X, Y}, fm \in {IntV(0), IntV(1)}, b \in {X, Null}}

UniquenessInputs ==
    Frames(<<"providerkey", "timevalue", "note">>, KeyRows, MaxKeyRows)
    \cup Frames(<<"a", "flag_manual", "b">>, NoKeyRows, MaxKeyRows)

SpecUniqueness == InitWith(UniquenessInputs) /\ [][check_uniqueness]_vars

(***************************************************************************)
(* check_validity alone.                                                   *)
(***************************************************************************)
YearValues == {IntV(2019), IntV(1850), Null, StrV(<<"a", "b", "c">>), StrV(<<"2", "0", "1", "9", ".", "5">>), StrV(<<"2", "0", "1", "9">>), InfV}

RevenueValues == {IntV(1000000), IntV(-5), Null, StrV(<<"n", "/", "a">>), StrV(<<"1", "2", ".", "5">>), InfV, FloatV(2, 15)}

\* every year value beside a plain revenue, every revenue value beside a plain year
ValidityRowsIn == {<<tv, IntV(1000000)>> : tv \in YearValues}
                  \cup {<<IntV(2019), rev>> : rev \in RevenueValues}
                  \cup {<<InfV, InfV>>, <<Null, Null>>}

DateRows == {<<f, c>> : f \in {StrV(<<"3", "0", "-", "J", "u", "n">>), StrV(<<"J", "u", "n", "e", " ", "3", "0">>), Null},
                        c \in {StrV(<<"7", "0", "1", "0", " ", "-", " ", "H", "o", "l", "d", "i", "n", "g">>), StrV(<<"7", "0", "1", "0">>), IntV(7010)}}

ValidityInputs ==
    Frames(<<"timevalue", "REVENUE">>, ValidityRowsIn, MaxRows)
    \cup Frames(<<"fiscalperiodend", "industrycode">>, DateRows, MaxRows)

SpecValidity == InitWith(ValidityInputs) /\ [][check_validity]_vars

(***************************************************************************)
(* check_consistency alone.                                                *)
(***************************************************************************)
UnitValues == {USD, StrV(<<"u", "s", "d">>), StrV(<<"U", "s", "d">>), StrV(<<"U", "S">>), StrV(<<"U", "S", "D", "1">>), StrV(<<"U", "S", "D", "\n">>), IntV(123), Null}

\* every unit value with no other checked column, and some beside a status
UnitRows == {<<u, Null>> : u \in UnitValues}
            \cup {<<USD, st>> : st \in {StrV(<<"A", "c", "t", "i", "v", "e">>), StrV(<<"C", "l", "o", "s", "e", "d">>)}}
            \cup {<<StrV(<<"u", "s", "d">>), StrV(<<"C", "l", "o", "s", "e", "d">>)>>}

NameRows == {<<n, ipo>> : n \in {StrV(<<"A", "C", "M", "E", " ", "C", "O", "R", "P">>), StrV(<<"a", "c", "m", "e", " ", "c", "o", "r", "p", "!">>), StrV(<<"A", "c", "m", "e", " ", "C", "o", "r", "p">>)},
                          ipo \in {StrV(<<"P", "u", "b", "l", "i", "c">>), StrV(<<"n", "o", "n", "e">>)}}

ConsistencyInputs ==
    Frames(<<"unit_REVENUE", "operationstatustype">>, UnitRows, MaxRows)
    \cup Frames(<<"companynameofficial", "ipostatustype">>, NameRows, MaxRows)

SpecConsistency == InitWith(ConsistencyInputs) /\ [][check_consistency]_vars

(***************************************************************************)
(* run_all_checks alone, called again and again on the dataset it          *)
(* returns.  The inputs may carry flag_ columns of their own.              *)
(***************************************************************************)
CarriedRows == {<<tv, fm>> : tv \in {IntV(2019), Null}, fm \in {IntV(0), IntV(1), IntV(5)}}

CarriedOutputRows == {<<a, fv>> : a \in {X, Y}, fv \in {IntV(0), Null}}

StaleRows == {<<a, fo>> : a \in {X, Y}, fo \in {IntV(1), Null}}

PlainRows == {<<a, b>> : a \in {X, Y}, b \in {X, Null}}

RunInputs ==
    Frames(<<"timevalue", "flag_manual">>, CarriedRows, MaxRunRows)
    \cup Frames(<<"a", "flag_validity">>, CarriedOutputRows, MaxRunRows)
    \cup Frames(<<"a", "flag_overall">>, StaleRows, MaxRunRows)
    \cup Frames(<<"a", "b">>, PlainRows, MaxRunRows)

SpecRun == InitWith(RunInputs) /\ [][run_all_checks]_vars

(***************************************************************************)
(* The claims.                                                             *)
(***************************************************************************)
Flag(d, i, c) == d.rows[i][c]

Rows(d) == 1..NRows(d)

\* under SpecRun: run_all_checks has returned the dataset df
RunCompleted == quality_issues["uniqueness"].present /\ raised = "None"

FourFlags == {"flag_completeness", "flag_consistency", "flag_validity", "flag_uniqueness"}

MaxOfFour(d, i) == CHOOSE v \in {Flag(d, i, c).m : c \in FourFlags} :
                       \A w \in {Flag(d, i, c).m : c \in FourFlags} : w <= v

\* C1 (as claimed): after run_all_checks on any dataset, also one that carries
\* flag_ columns of its own, flag_overall[i] is the maximum of the four
\* dimension flags of record i.
C1_OverallIsMaxOfFour ==
    RunCompleted => \A i \in Rows(df) : Flag(df, i, "flag_overall") = IntV(MaxOfFour(df, i))

\* C2 (as claimed): on a dataset with zero records no evaluator raises, and
\* every percentage and every overall_quality_score reported is a defined value.
C2_EmptyDatasetDefined ==
    NRows(df) = 0 =>
        /\ raised = "None"
        /\ \A dim \in Keys(quality_issues) : ~quality_issues[dim].percentage.nan
        /\ \A k \in 1..Len(summaries) : ~summaries[k].overall_quality_score.nan

FlagColumnsOf(d) == [i \in Rows(d) |-> [c \in FourFlags \cup {"flag_overall"} |-> Flag(d, i, c)]]

\* C3 (as claimed): run_all_checks on the dataset a first run returned yields
\* the same five flag columns as the first run, for every dataset.
C3_SecondRunSameFlags ==
    [][RunCompleted => FlagColumnsOf(df)' = FlagColumnsOf(df)]_vars

\* C4: the overall_quality_score of every summary is in [0, 100], whatever
\* evaluator calls were made before, on this dataset or on another one.
C4_ScoreBounds ==
    \A k \in 1..Len(summaries) :
        /\ ~summaries[k].overall_quality_score.nan
        /\ 0 <= summaries[k].overall_quality_score.num
        /\ summaries[k].overall_quality_score.num <= 100 * summaries[k].overall_quality_score.den

\* C4's case: evaluators ran on another dataset, the issues they counted exceed
\* what the one-record dataset at hand can have, and the score is clamped to 0.
C4_Witness ==
    /\ loads = 1
    /\ Len(summaries) = 1
    /\ NRows(df) = 1
    /\ TotalIssues(quality_issues) > NRows(df) * Cardinality(Keys(quality_issues))
    /\ summaries[1].total_records = 1
    /\ summaries[1].overall_quality_score = Rat(0, 1)

\* what a reader of summary k sees: quality_measures is read through the reference
SummaryView(k) ==
    [total_records         |-> summaries[k].total_records,
     quality_measures      |-> IF summaries[k].quality_measures = "self.quality_issues"
                               THEN quality_issues ELSE EmptyIssues,
     overall_quality_score |-> summaries[k].overall_quality_score]

\* C5 (as claimed): no later operation on the checker changes the
\* quality_measures, total_records or overall_quality_score a summary reports.
C5_SummaryImmutable ==
    [][\A k \in 1..Len(summaries) : SummaryView(k)' = SummaryView(k)]_vars

\* a present value that is no number: no integer for the year, no real for the revenue
UnparsableYear(d, i) == Present(d, i, "timevalue") /\ PyInt(Flag(d, i, "timevalue")).exc # "None"

UnparsableRevenue(d, i) == Present(d, i, "REVENUE") /\ PyFloat(Flag(d, i, "REVENUE")).exc # "None"

Unparsable(d, i) == UnparsableYear(d, i) \/ UnparsableRevenue(d, i)

\* C6 (as claimed): a present timevalue or REVENUE that cannot be parsed as a
\* number (text, a decimal string for the year, an infinite float) never makes
\* check_validity raise, and the record gets flag_validity = 1.
C6_UnparsableFlagged ==
    (\E i \in Rows(df) : Unparsable(df, i)) =>
        /\ raised = "None"
        /\ quality_issues["validity"].present =>
              \A i \in Rows(df) : Unparsable(df, i) => Flag(df, i, "flag_validity") = IntV(1)

NamedKeys == {"providerkey", "timevalue", "fiscalperiodend"}

C7_Keys(d) == IF ColumnSet(d) \cap NamedKeys # {} THEN ColumnSet(d) \cap NamedKeys
              ELSE {c \in ColumnSet(d) : ~StartsWithFlag(c)}

Occurrences(d, i) ==
    Cardinality({j \in Rows(d) : \A c \in C7_Keys(d) : Flag(d, j, c) = Flag(d, i, c)})

\* C7: check_uniqueness flags exactly the records whose key tuple occurs more
\* than once, the first occurrence included, and total_issues counts them.
C7_Uniqueness ==
    quality_issues["uniqueness"].present =>
        /\ \A i \in Rows(df) :
              Flag(df, i, "flag_uniqueness") = IF Occurrences(df, i) > 1 THEN IntV(1) ELSE IntV(0)
        /\ quality_issues["uniqueness"].total_issues
              = Cardinality({i \in Rows(df) : Flag(df, i, "flag_uniqueness") = IntV(1)})

\* C7's case: no key column exists, the first record is a duplicate of a later
\* one although their flag_manual values differ, and another record is unique.
C7_Witness ==
    /\ quality_issues["uniqueness"].present
    /\ ColumnSet(df) \cap NamedKeys = {}
    /\ NRows(df) = 3
    /\ Flag(df, 1, "flag_uniqueness") = IntV(1)
    /\ Flag(df, 2, "flag_uniqueness") = IntV(0)
    /\ Flag(df, 3, "flag_uniqueness") = IntV(1)
    /\ Flag(df, 1, "flag_manual") # Flag(df, 3, "flag_manual")

CriticalSet == {critical_columns[k] : k \in 1..Len(critical_columns)}

C8_Checked(d) == IF ColumnSet(d) \cap CriticalSet # {} THEN ColumnSet(d) \cap CriticalSet
                 ELSE {d.columns[k] : k \in 1..Min(4, Len(d.columns))}

\* C8: check_completeness flags a record iff one of the checked columns (the
\* critical columns that exist, else the first min(4, column_count) columns)
\* is null for it in the dataset passed in; total_issues counts the flagged.
C8_Completeness ==
    [][quality_issues'["completeness"].present =>
        /\ \A i \in Rows(df) :
              Flag(df', i, "flag_completeness")
                  = IF \E c \in C8_Checked(df) : Flag(df, i, c) = Null THEN IntV(1) ELSE IntV(0)
        /\ quality_issues'["completeness"].total_issues
              = Cardinality({i \in Rows(df) : \E c \in C8_Checked(df) : Flag(df, i, c) = Null})
      ]_vars

\* C8's case: no critical column exists, the dataset has five columns, one
\* record is flagged for a null among the first four and one with a null only
\* in the fifth is not.
C8_Witness ==
    /\ quality_issues["completeness"].present
    /\ ColumnSet(df) \cap CriticalSet = {}
    /\ Len(df.columns) > 4
    /\ \E i \in Rows(df) : Flag(df, i, "flag_completeness") = IntV(1)
    /\ \E i \in Rows(df) : Flag(df, i, "flag_completeness") = IntV(0) /\ Flag(df, i, "e") = Null

\* C9 (as claimed): after run_all_checks every column whose name starts with
\* flag_ holds 0 or 1 for every record.
C9_FlagsAreBinary ==
    RunCompleted =>
        \A c \in {c \in ColumnSet(df) : StartsWithFlag(c)} :
            \A i \in Rows(df) : Flag(df, i, c) \in {IntV(0), IntV(1)}

IsLetter(c) == IsUpperCh(c) \/ IsLowerCh(c)

ThreeUpper(s) == Len(s) = 3 /\ \A k \in 1..3 : IsUpperCh(s[k])

ThreeLetters(s) == Len(s) = 3 /\ \A k \in 1..3 : IsLetter(s[k])

\* three letters, or three letters and one final newline
ThreeLettersLine(s) == ThreeLetters(s) \/ (Len(s) = 4 /\ ThreeLetters(SubSeq(s, 1, 3)) /\ s[4] = "\n")

OtherConsistencyColumns == {"companynameofficial", "operationstatustype", "ipostatustype"}

\* no other sub-check of check_consistency applies to record i
OnlyCurrencyChecked(d, i) == \A c \in OtherConsistencyColumns : ~Present(d, i, c)

\* C10 (as claimed): a present unit_REVENUE that is not exactly three upper-case
\* letters gets flag_consistency = 1; one that is, is not flagged by the sub-check.
C10_UpperCaseOnly ==
    quality_issues["consistency"].present =>
        \A i \in Rows(df) : Present(df, i, "unit_REVENUE") =>
            /\ ~ThreeUpper(PyStr(Flag(df, i, "unit_REVENUE")))
                  => Flag(df, i, "flag_consistency") = IntV(1)
            /\ ThreeUpper(PyStr(Flag(df, i, "unit_REVENUE"))) /\ OnlyCurrencyChecked(df, i)
                  => Flag(df, i, "flag_consistency") = IntV(0)

\* C10 (as amended): a present unit_REVENUE that is not three letters in any
\* case (one final newline aside) gets flag_consistency = 1; one that is three
\* letters in any case is not flagged by the sub-check.
C10_AnyCase ==
    quality_issues["consistency"].present =>
        \A i \in Rows(df) : Present(df, i, "unit_REVENUE") =>
            /\ ~ThreeLettersLine(PyStr(Flag(df, i, "unit_REVENUE")))
                  => Flag(df, i, "flag_consistency") = IntV(1)
            /\ ThreeLetters(PyStr(Flag(df, i, "unit_REVENUE"))) /\ OnlyCurrencyChecked(df, i)
                  => Flag(df, i, "flag_consistency") = IntV(0)

\* C10's case: a lower-case code is not flagged, a two-letter code is.
C10_Witness ==
    /\ quality_issues["consistency"].present
    /\ HasColumn(df, "unit_REVENUE")
    /\ NRows(df) = 2
    /\ Flag(df, 1, "unit_REVENUE") = StrV(<<"u", "s", "d">>) /\ OnlyCurrencyChecked(df, 1)
    /\ Flag(df, 1, "flag_consistency") = IntV(0)
    /\ Flag(df, 2, "unit_REVENUE") = StrV(<<"U", "S">>)
    /\ Flag(df, 2, "flag_consistency") = IntV(1)

====
